---- MODULE Spec2Model ----
(***************************************************************************)
(* Orchestration core of rag-mcp: the RAGManager instance registry, the    *)
(* DocumentProcessor batch ingestion pipeline and the QueryService cache.  *)
(*                                                                         *)
(* Scheduling is asyncio's: one thread, a coroutine runs until it awaits.  *)
(* process_directory suspends at asyncio.gather; each gathered unit holds  *)
(* a semaphore permit while it is inside the capability backend, which is  *)
(* the only other place a unit may be suspended.                           *)
(***************************************************************************)
EXTENDS Integers, Sequences, FiniteSets, TLC

VARIABLES
    instances,      \* heap of RAGInstance objects, by object identity
    registry,       \* RAGManager._instances: cache_key -> RAGInstance
    calls,          \* process_directory coroutines suspended at gather
    now,            \* datetime.utcnow()
    last            \* the operation that completed in the step just taken, with its result

vars == <<instances, registry, calls, now, last>>

----------------------------------------------------------------------------
(* Bounds of the model *)

MaxCalls == 2
MaxTime == 2

----------------------------------------------------------------------------
(* Settings defaults, src/config/settings.py *)

RAG_MAX_WORKERS == 4
MAX_FILE_SIZE_MB == 100
ENABLE_CACHE == TRUE
RAG_WORKING_DIR == <<".", "rag_storage">>

Ext_pdf == <<".", "p", "d", "f">>
Ext_docx == <<".", "d", "o", "c", "x">>
Ext_pptx == <<".", "p", "p", "t", "x">>
Ext_txt == <<".", "t", "x", "t">>
Ext_md == <<".", "m", "d">>

SUPPORTED_FILE_EXTENSIONS == <<Ext_pdf, Ext_docx, Ext_pptx, Ext_txt, Ext_md>>

BytesPerMB == 1024 * 1024

----------------------------------------------------------------------------
(* The filesystem the program runs against: two directories.               *)
(*   /a/b : a.txt (1 MB), b.md (exactly 100 MB), sub/c.txt (100 MB + 1 B)  *)
(*   /c   : x.txt (1 MB)                                                   *)

Dir_ab == <<"a", "b">>
Dir_c == <<"c">>

FileSystem ==
    { [path |-> "/a/b/a.txt", dir |-> Dir_ab, nested |-> FALSE,
       name |-> <<"a">> \o Ext_txt, st_size |-> BytesPerMB],
      [path |-> "/a/b/b.md", dir |-> Dir_ab, nested |-> FALSE,
       name |-> <<"b">> \o Ext_md, st_size |-> MAX_FILE_SIZE_MB * BytesPerMB],
      [path |-> "/a/b/sub/c.txt", dir |-> Dir_ab, nested |-> TRUE,
       name |-> <<"c">> \o Ext_txt, st_size |-> MAX_FILE_SIZE_MB * BytesPerMB + 1],
      [path |-> "/c/x.txt", dir |-> Dir_c, nested |-> FALSE,
       name |-> <<"x">> \o Ext_txt, st_size |-> BytesPerMB] }

\* /a/c, a directory without files that has the final name of /c
Dir_ac == <<"a", "c">>

\* the directories that exist
Directories == {<<>>, <<"a">>, Dir_ab, <<"a", "b", "sub">>, Dir_ac, Dir_c}

\* a path at which nothing exists
Dir_missing == <<"nope">>

\* The paths of FileSystem in the order sorted() gives Path objects.
PathOrder == <<"/a/b/a.txt", "/a/b/b.md", "/a/b/sub/c.txt", "/c/x.txt">>

FileAt(p) == CHOOSE f \in FileSystem : f.path = p

Exists(p) == \E f \in FileSystem : f.path = p

----------------------------------------------------------------------------
(* Path(directory_path).resolve(): "." segments vanish *)

NotDot(seg) == seg # "."

Unresolved(directory_path) == directory_path

Resolve(directory_path) == SelectSeq(directory_path, NotDot)

\* Path.name: the final segment
PathName(p) == p[Len(p)]

DirKeys == {Dir_ab, Dir_c}

InstIds == 1 .. (Cardinality(DirKeys) + MaxCalls)

CallIds == 1 .. MaxCalls

None == <<>>

NoInstance == [free |-> TRUE]

\* the value of `last` after a step that completes no operation
NoOp == [op |-> "none"]

NoCache == <<>>

IdleCall ==
    [pc |-> "idle", inst |-> 0, files |-> <<>>, units |-> <<>>, sem |-> 0,
     max_workers |-> None]

----------------------------------------------------------------------------
(* RAGInstance *)

RAGInstance(dir_path, working_dir) ==
    [ directory_path |-> dir_path,
      working_dir |-> IF working_dir # None THEN working_dir
                      ELSE Append(RAG_WORKING_DIR, PathName(dir_path)),
      created_at |-> now,
      last_accessed |-> now,
      is_processing |-> FALSE,
      is_initialized |-> FALSE,
      cache |-> NoCache,
      \* not a field of the program: the answers the backend has produced for
      \* this instance's QueryService, by (mode, query text)
      answered |-> <<>> ]

TouchAndReset(instance) ==
    [instance EXCEPT !.last_accessed = now, !.is_initialized = FALSE]

touch(instance) == [instance EXCEPT !.last_accessed = now]

----------------------------------------------------------------------------
(* Objects no longer referenced are collected: an instance lives while the *)
(* registry maps a key to it or a suspended call holds it.                 *)

Range(f) == {f[x] : x \in DOMAIN f}

Referenced(reg, cls) ==
    Range(reg) \cup {cls[c].inst : c \in {d \in CallIds : cls[d].pc # "idle"}}

Collect(heap, reg, cls) ==
    [i \in InstIds |-> IF i \in Referenced(reg, cls) THEN heap[i] ELSE NoInstance]

FreeId ==
    CHOOSE i \in InstIds :
        /\ instances[i] = NoInstance
        /\ \A j \in InstIds : j < i => instances[j] # NoInstance

----------------------------------------------------------------------------
(* RAGManager.get_or_create_instance *)

\* str(Path(directory_path).resolve())

CacheKeyOf(directory_path) == Resolve(directory_path)

InstanceFor(directory_path) ==
    IF CacheKeyOf(directory_path) \in DOMAIN registry
    THEN registry[CacheKeyOf(directory_path)]
    ELSE FreeId

HeapAfterGetOrCreate(directory_path, working_dir) ==
    LET cache_key == CacheKeyOf(directory_path)
        id == InstanceFor(directory_path)
    IN  IF cache_key \in DOMAIN registry
        THEN [instances EXCEPT ![id] = touch(instances[id])]
        ELSE [instances EXCEPT ![id] = RAGInstance(cache_key, working_dir)]

RegistryAfterGetOrCreate(directory_path) ==
    LET cache_key == CacheKeyOf(directory_path)
    IN  IF cache_key \in DOMAIN registry
        THEN registry
        ELSE (cache_key :> FreeId) @@ registry

\* What one call does with self._lock, in order: the lock is taken at line 121
\* and given back when the with block is left; a path that has no instance gets
\* one from RAGInstance.__init__, which creates the working directory on disk
\* (line 56) before the instance is put into the map.
GetOrCreateEvents(directory_path) ==
    IF CacheKeyOf(directory_path) \in DOMAIN registry
    THEN <<"acquire", "lookup", "touch", "release">>
    ELSE <<"acquire", "lookup", "mkdir", "insert", "release">>

\* the call on its own, as process_directory and process_single_document make it
GetOrCreateInstance(directory_path, working_dir) ==
    /\ instances' = HeapAfterGetOrCreate(directory_path, working_dir)
    /\ registry' = RegistryAfterGetOrCreate(directory_path)
    /\ last' = [op |-> "get_or_create_instance", inst |-> InstanceFor(directory_path),
                key |-> CacheKeyOf(directory_path), outcome |-> "returned",
                events |-> GetOrCreateEvents(directory_path)]
    /\ UNCHANGED <<calls, now>>

----------------------------------------------------------------------------
(* Keyword arguments: a function from the names given to their values *)

Get(kwargs, name, default) ==
    IF name \in DOMAIN kwargs THEN kwargs[name] ELSE default

\* Python's `x or default` for an optional integer: None and 0 are falsy
OrDefault(opt, default) ==
    IF opt = None \/ opt = <<0>> THEN default ELSE opt[1]

Exception(type, msg, file_path) == [exc |-> type, msg |-> msg, file_path |-> file_path]

IsException(result) == "exc" \in DOMAIN result

----------------------------------------------------------------------------
(* DocumentProcessor._find_files *)

EndsWith(name, ext) ==
    /\ Len(ext) <= Len(name)
    /\ SubSeq(name, Len(name) - Len(ext) + 1, Len(name)) = ext

\* directory.glob("**/*" + ext) when recursive, directory.glob("*" + ext) otherwise
Glob(directory, ext, recursive) ==
    { f.path : f \in { g \in FileSystem :
                         /\ g.dir = Resolve(directory)
                         /\ (recursive \/ ~g.nested)
                         /\ EndsWith(g.name, ext) } }

RECURSIVE Repeat(_, _)
Repeat(x, n) == IF n = 0 THEN <<>> ELSE <<x>> \o Repeat(x, n - 1)

\* files.extend(glob) for every extension, then sorted(files): a file is listed
\* once for every extension pattern it matches
_find_files(directory, extensions, recursive) ==
    LET times(p) == Cardinality({ i \in DOMAIN extensions :
                                    p \in Glob(directory, extensions[i], recursive) })
        upto[i \in 0 .. Len(PathOrder)] ==
            IF i = 0 THEN <<>>
            ELSE upto[i - 1] \o Repeat(PathOrder[i], times(PathOrder[i]))
    IN  upto[Len(PathOrder)]

----------------------------------------------------------------------------
(* DocumentProcessor.process_single_document *)

Passed == [passed |-> TRUE]

NoPrecheck(file_path) == Passed

\* lines 140-150: the checks before the backend
Precheck(file_path) ==
    IF ~Exists(file_path)
    THEN Exception("FileNotFoundError", "File not found", file_path)
    ELSE IF FileAt(file_path).st_size > MAX_FILE_SIZE_MB * BytesPerMB
         THEN Exception("ValueError", "File too large", file_path)
         ELSE Passed

\* lines 156-192: the backend's result, or the error dict of the except branch
IngestResult(file_path, backend_ok) ==
    IF backend_ok
    THEN [status |-> "success", file_path |-> file_path]
    ELSE [status |-> "error", file_path |-> file_path, error |-> "backend"]

----------------------------------------------------------------------------
(* DocumentProcessor._process_files_batch *)

Waiting == [st |-> "waiting"]
InBackend == [st |-> "backend"]
Done(result) == [st |-> "done", result |-> result]

\* the place in gather's result list of a unit that has not finished
Pending == [status |-> "pending"]

SemaphoreNeverLocked(sem) == FALSE

\* one gate for all calls: no permit while any call has none left
SemaphoreOfAllCalls(sem) == sem <= 0 \/ \E c \in CallIds : calls[c].pc = "gather" /\ calls[c].sem <= 0

\* asyncio.Semaphore.locked()
SemaphoreLocked(sem) == sem <= 0

GatherCompleteEarly(units) == \A i \in DOMAIN units : units[i].st # "backend"

\* await asyncio.gather(...): every awaitable has finished
GatherComplete(units) == \A i \in DOMAIN units : units[i].st = "done"

GatherRaisesFirst(units) ==
    IF \E i \in DOMAIN units : units[i].st = "done" /\ IsException(units[i].result)
    THEN [raised |-> TRUE,
          value |-> units[CHOOSE i \in DOMAIN units :
                             /\ units[i].st = "done" /\ IsException(units[i].result)
                             /\ \A j \in 1 .. (i - 1) :
                                   ~(units[j].st = "done" /\ IsException(units[j].result))].result]
    ELSE [raised |-> FALSE,
          value |-> [i \in DOMAIN units |->
                       IF units[i].st = "done" THEN units[i].result ELSE Pending]]

\* gather(..., return_exceptions=True): the results in the order of the awaitables,
\* a raised exception standing in for the result of its unit
Gather(units) ==
    [raised |-> FALSE,
     value |-> [i \in DOMAIN units |->
                  IF units[i].st = "done" THEN units[i].result ELSE Pending]]

\* lines 246-258: an exception becomes an error dict for files[i]
HandleExceptions(files, results) ==
    [i \in DOMAIN results |->
        IF IsException(results[i])
        THEN [status |-> "error", file_path |-> files[i], error |-> results[i].msg]
        ELSE results[i]]

----------------------------------------------------------------------------
(* DocumentProcessor.process_directory *)

CountStatus(results, status) ==
    Cardinality({i \in DOMAIN results : results[i].status = status})

IsError(r) == r.status = "error"

EmptyReport ==
    [status |-> "completed", total_files |-> 0, processed_files |-> 0,
     failed_files |-> 0, skipped_files |-> 0, errors |-> <<>>]

\* lines 103-115
CompileStatistics(files, results, working_dir) ==
    [status |-> "completed",
     total_files |-> Len(files),
     processed_files |-> CountStatus(results, "success"),
     failed_files |-> CountStatus(results, "error"),
     skipped_files |-> CountStatus(results, "skipped"),
     errors |-> SelectSeq(results, IsError),
     working_directory |-> working_dir]

\* What the call does before its first suspension (lines 74-101 and 219-234):
\* it raises, returns the empty report, or dispatches the units and awaits gather.
Dispatch(directory_path, kwargs) ==
    LET files == _find_files(directory_path,
                             IF Get(kwargs, "file_extensions", None) = None
                             THEN SUPPORTED_FILE_EXTENSIONS
                             ELSE kwargs.file_extensions,
                             Get(kwargs, "recursive", TRUE))
        workers == OrDefault(Get(kwargs, "max_workers", None), RAG_MAX_WORKERS)
    IN  IF "working_dir" \in DOMAIN kwargs
        THEN [kind |-> "raise",
              value |-> Exception("TypeError", "multiple values for working_dir", None)]
        ELSE IF files = <<>>
        THEN [kind |-> "return", value |-> EmptyReport]
        ELSE IF workers < 0
        THEN [kind |-> "raise",
              value |-> Exception("ValueError", "Semaphore initial value must be >= 0", None)]
        ELSE [kind |-> "gather", files |-> files, sem |-> workers]


----------------------------------------------------------------------------
(* RAGManager.process_directory *)

NeverProcessing(instance) == FALSE

\* line 161
AlreadyProcessing(instance) == instance.is_processing

KeepProcessing(instance) == instance

ReleaseAndInvalidate(instance) ==
    [instance EXCEPT !.is_processing = FALSE, !.cache = NoCache]

\* line 186, the finally clause
ReleaseProcessing(instance) == [instance EXCEPT !.is_processing = FALSE]

InsideTry(instance) == ReleaseProcessing(instance)

\* lines 160-161 stand before the try statement: when they raise, the finally
\* clause does not run and the instance is left as get_or_create_instance gave it
OutsideTry(instance) == instance

\* The call up to its first suspension. It is rejected, or it fails or returns
\* without suspending, or it is left awaiting gather with is_processing set.
ProcessDirectory(c, directory_path, kwargs) ==
    /\ calls[c].pc = "idle"
    /\ \A b \in CallIds : b < c => calls[b].pc # "idle"
    /\ LET id == InstanceFor(directory_path)
           heap == HeapAfterGetOrCreate(directory_path, Get(kwargs, "working_dir", None))
           reg == RegistryAfterGetOrCreate(directory_path)
           instance == heap[id]
           step == Dispatch(directory_path, kwargs)
           done(outcome, value, heap2) ==
               /\ instances' = heap2
               /\ calls' = calls
               /\ last' = [op |-> "process_directory", inst |-> id,
                           key |-> CacheKeyOf(directory_path),
                           outcome |-> outcome, value |-> value,
                           files |-> <<>>, results |-> <<>>,
                           max_workers |-> Get(kwargs, "max_workers", None)]
       IN  /\ registry' = reg
           /\ now' = now
           /\ IF AlreadyProcessing(instance)
              THEN done("raised",
                        Exception("ValueError", "Directory is already being processed", None),
                        [heap EXCEPT ![id] = OutsideTry(instance)])
              ELSE CASE step.kind = "raise" ->
                          done("raised", step.value,
                               [heap EXCEPT ![id] = ReleaseProcessing(
                                   [instance EXCEPT !.is_processing = TRUE])])
                     [] step.kind = "return" ->
                          done("returned", step.value,
                               [heap EXCEPT ![id] = ReleaseProcessing(
                                   [instance EXCEPT !.is_processing = TRUE,
                                                    !.is_initialized = TRUE])])
                     [] step.kind = "gather" ->
                          /\ instances' = [heap EXCEPT ![id].is_processing = TRUE]
                          /\ calls' = [calls EXCEPT ![c] =
                                 [pc |-> "gather", inst |-> id, files |-> step.files,
                                  units |-> [i \in DOMAIN step.files |-> Waiting],
                                  sem |-> step.sem,
                                  max_workers |-> Get(kwargs, "max_workers", None)]]
                          /\ last' = NoOp

\* process_with_limit: a unit takes a permit and runs process_single_document up
\* to the backend; a file that fails the checks raises and gives the permit back
UnitStart(c, i) ==
    /\ calls[c].pc = "gather"
    /\ i \in DOMAIN calls[c].units
    /\ calls[c].units[i] = Waiting
    /\ ~SemaphoreLocked(calls[c].sem)
    /\ LET check == Precheck(calls[c].files[i])
       IN  calls' = [calls EXCEPT
                ![c].units[i] = IF IsException(check) THEN Done(check) ELSE InBackend,
                ![c].sem = IF IsException(check) THEN @ ELSE @ - 1]
    /\ last' = NoOp
    /\ UNCHANGED <<instances, registry, now>>

SemaphoreLeak(sem) == sem

\* leaving `async with semaphore`, line 237: the permit is given back, also
\* when the unit raised
SemaphoreRelease(sem) == sem + 1

\* the backend is done with the file: the unit returns its result dict and
\* leaves `async with semaphore`
UnitFinish(c, i, backend_ok) ==
    /\ calls[c].pc = "gather"
    /\ i \in DOMAIN calls[c].units
    /\ calls[c].units[i] = InBackend
    /\ calls' = [calls EXCEPT
            ![c].units[i] = Done(IngestResult(calls[c].files[i], backend_ok)),
            ![c].sem = SemaphoreRelease(@)]
    /\ last' = NoOp
    /\ UNCHANGED <<instances, registry, now>>

\* gather is complete: the call resumes, compiles the report and returns
ProcessDirectoryReturn(c) ==
    /\ calls[c].pc = "gather"
    /\ GatherComplete(calls[c].units)
    /\ LET id == calls[c].inst
           instance == instances[id]
           gathered == Gather(calls[c].units)
           report == CompileStatistics(calls[c].files,
                                       HandleExceptions(calls[c].files, gathered.value),
                                       instance.working_dir)
           cls == [calls EXCEPT ![c] = IdleCall]
       IN  /\ calls' = cls
           /\ instances' = Collect(
                  [instances EXCEPT ![id] =
                      ReleaseProcessing(IF gathered.raised THEN instance
                                        ELSE [instance EXCEPT !.is_initialized = TRUE])],
                  registry, cls)
           /\ last' = [op |-> "process_directory", inst |-> id,
                       key |-> instance.directory_path,
                       outcome |-> IF gathered.raised THEN "raised" ELSE "returned",
                       value |-> IF gathered.raised THEN gathered.value ELSE report,
                       files |-> calls[c].files,
                       results |-> calls[c].units,
                       max_workers |-> calls[c].max_workers]
    /\ UNCHANGED <<registry, now>>

----------------------------------------------------------------------------
(* QueryService *)

VALID_MODES == <<"hybrid", "local", "global", "naive", "mix", "bypass">>

AcceptAnyMode(mode) == TRUE

\* QueryService._validate_mode: TRUE when the mode passes, FALSE when it raises
_validate_mode(mode) == mode \in Range(VALID_MODES)

\* f"{mode}:{query}"
QueryCacheKey(mode, query) == mode \o ":" \o query

NeverCached(cache, cache_key) == FALSE

\* self._cache is not None and cache_key in self._cache
Cached(cache, cache_key) == ENABLE_CACHE /\ cache_key \in DOMAIN cache

\* if self._cache is not None: self._cache[cache_key] = result
Store(cache, cache_key, result) ==
    IF ENABLE_CACHE THEN (cache_key :> result) @@ cache ELSE cache

\* Python values of a multimodal_content argument
PyList(items) == [py |-> "list", items |-> items]
PyDict(fields) == [py |-> "dict", fields |-> fields]
PyStr(text) == [py |-> "str", text |-> text]

\* the checks on one item without the rule for equations
ValidateItemLax(item) ==
    IF item.py # "dict"
    THEN Exception("ValueError", "Each multimodal item must be a dictionary", None)
    ELSE IF "type" \notin DOMAIN item.fields
    THEN Exception("ValueError", "Each multimodal item must have a 'type' field", None)
    ELSE IF item.fields.type = "table" /\ "table_data" \notin DOMAIN item.fields
    THEN Exception("ValueError", "Table items must have 'table_data' field", None)
    ELSE IF /\ item.fields.type = "image"
            /\ "image_url" \notin DOMAIN item.fields
            /\ "image_path" \notin DOMAIN item.fields
    THEN Exception("ValueError", "Image items must have 'image_url' or 'image_path' field", None)
    ELSE Passed

\* QueryService._validate_multimodal_content on one item: the error raised, or Passed
ValidateItem(item) ==
    IF item.py # "dict"
    THEN Exception("ValueError", "Each multimodal item must be a dictionary", None)
    ELSE IF "type" \notin DOMAIN item.fields
    THEN Exception("ValueError", "Each multimodal item must have a 'type' field", None)
    ELSE IF item.fields.type = "table" /\ "table_data" \notin DOMAIN item.fields
    THEN Exception("ValueError", "Table items must have 'table_data' field", None)
    ELSE IF item.fields.type = "equation" /\ "latex" \notin DOMAIN item.fields
    THEN Exception("ValueError", "Equation items must have 'latex' field", None)
    ELSE IF /\ item.fields.type = "image"
            /\ "image_url" \notin DOMAIN item.fields
            /\ "image_path" \notin DOMAIN item.fields
    THEN Exception("ValueError", "Image items must have 'image_url' or 'image_path' field", None)
    ELSE Passed

\* QueryService._validate_multimodal_content: the first error of the list, or Passed
_validate_multimodal_content(content) ==
    IF content.py # "list"
    THEN Exception("ValueError", "multimodal_content must be a list", None)
    ELSE IF \E i \in DOMAIN content.items : IsException(ValidateItem(content.items[i]))
    THEN ValidateItem(content.items[
             CHOOSE i \in DOMAIN content.items :
                /\ IsException(ValidateItem(content.items[i]))
                /\ \A j \in 1 .. (i - 1) : ~IsException(ValidateItem(content.items[j]))])
    ELSE Passed

CountType(items, type) ==
    Cardinality({i \in DOMAIN items : items[i].fields.type = type})

InvalidMode == Exception("ValueError", "Invalid query mode", None)

BackendError == Exception("Exception", "backend", None)

\* QueryService.query. `answer` is what the backend does if it is asked: <<response>>,
\* or None when it fails. The result names the outcome, the value returned or
\* raised, the cache afterwards, and whether the cache hit and the backend ran.
query(cache, working_dir, query_text, mode, answer) ==
    LET cache_key == QueryCacheKey(mode, query_text)
        result == [query |-> query_text, mode |-> mode, response |-> answer[1],
                   working_dir |-> working_dir]
    IN  IF ~_validate_mode(mode)
        THEN [outcome |-> "raised", value |-> InvalidMode, cache |-> cache,
              hit |-> FALSE, invoked |-> FALSE]
        ELSE IF Cached(cache, cache_key)
        THEN [outcome |-> "returned", value |-> cache[cache_key], cache |-> cache,
              hit |-> TRUE, invoked |-> FALSE]
        ELSE IF answer = None
        THEN [outcome |-> "raised", value |-> BackendError, cache |-> cache,
              hit |-> FALSE, invoked |-> TRUE]
        ELSE [outcome |-> "returned", value |-> result,
              cache |-> Store(cache, cache_key, result),
              hit |-> FALSE, invoked |-> TRUE]

\* a multimodal query that went through the cache as query does
CachedMultimodal(cache, working_dir, query_text, content, mode, answer) ==
    LET checked == _validate_multimodal_content(content)
        cache_key == QueryCacheKey(mode, query_text)
        result == [query |-> query_text, mode |-> mode,
                   multimodal_items |-> Len(content.items), response |-> answer[1],
                   tables_processed |-> CountType(content.items, "table"),
                   equations_processed |-> CountType(content.items, "equation"),
                   images_processed |-> CountType(content.items, "image"),
                   working_dir |-> working_dir]
    IN  IF ~_validate_mode(mode)
        THEN [outcome |-> "raised", value |-> InvalidMode, cache |-> cache,
              hit |-> FALSE, invoked |-> FALSE]
        ELSE IF IsException(checked)
        THEN [outcome |-> "raised", value |-> checked, cache |-> cache,
              hit |-> FALSE, invoked |-> FALSE]
        ELSE IF Cached(cache, cache_key)
        THEN [outcome |-> "returned", value |-> cache[cache_key], cache |-> cache,
              hit |-> TRUE, invoked |-> FALSE]
        ELSE IF answer = None
        THEN [outcome |-> "raised", value |-> BackendError, cache |-> cache,
              hit |-> FALSE, invoked |-> TRUE]
        ELSE [outcome |-> "returned", value |-> result,
              cache |-> Store(cache, cache_key, result),
              hit |-> FALSE, invoked |-> TRUE]

\* QueryService.query_with_multimodal
query_with_multimodal(cache, working_dir, query_text, content, mode, answer) ==
    LET checked == _validate_multimodal_content(content)
        result == [query |-> query_text, mode |-> mode,
                   multimodal_items |-> Len(content.items), response |-> answer[1],
                   tables_processed |-> CountType(content.items, "table"),
                   equations_processed |-> CountType(content.items, "equation"),
                   images_processed |-> CountType(content.items, "image"),
                   working_dir |-> working_dir]
    IN  IF ~_validate_mode(mode)
        THEN [outcome |-> "raised", value |-> InvalidMode, cache |-> cache,
              hit |-> FALSE, invoked |-> FALSE]
        ELSE IF IsException(checked)
        THEN [outcome |-> "raised", value |-> checked, cache |-> cache,
              hit |-> FALSE, invoked |-> FALSE]
        ELSE IF answer = None
        THEN [outcome |-> "raised", value |-> BackendError, cache |-> cache,
              hit |-> FALSE, invoked |-> TRUE]
        ELSE [outcome |-> "returned", value |-> result, cache |-> cache,
              hit |-> FALSE, invoked |-> TRUE]

----------------------------------------------------------------------------
(* Validator.validate_query_mode, src/utils/validation.py *)

valid_modes == <<"hybrid", "local", "global", "naive", "mix", "bypass">>

AcceptAnyCase(mode) == mode \in Range(valid_modes) \cup {"Hybrid"}

\* TRUE when the mode passes, FALSE when it raises
validate_query_mode(mode) == mode \in Range(valid_modes)

----------------------------------------------------------------------------
(* RAGManager.query_directory and RAGManager.query_with_multimodal *)

NotProcessed == Exception("ValueError", "Directory not processed", None)

NotInitialized == Exception("ValueError", "Directory not fully initialized", None)

AlwaysInitialized(instance) == TRUE

\* line 255
Initialized(instance) == instance.is_initialized

\* `last` after a query that failed in the registry, before the Query Executor;
\* content is the item list of a multimodal query
NotReached(op, id, directory_path, query_text, mode, value) ==
    [op |-> op, inst |-> id, key |-> CacheKeyOf(directory_path), mode |-> mode,
     query |-> query_text, content |-> PyList(<<>>), executor |-> FALSE,
     outcome |-> "raised", value |-> value, hit |-> FALSE, invoked |-> FALSE]

\* `last` after a query that was delegated to the Query Executor
Reached(op, id, directory_path, query_text, mode, r) ==
    [op |-> op, inst |-> id, key |-> CacheKeyOf(directory_path), mode |-> mode,
     query |-> query_text, content |-> PyList(<<>>), executor |-> TRUE,
     outcome |-> r.outcome, value |-> r.value, hit |-> r.hit, invoked |-> r.invoked]

\* the backend's log after a text query
Answered(log, query_text, mode, r) ==
    IF r.invoked /\ r.outcome = "returned"
    THEN (<<mode, query_text>> :>
             Append(IF <<mode, query_text>> \in DOMAIN log
                    THEN log[<<mode, query_text>>] ELSE <<>>, r.value)) @@ log
    ELSE log

QueryDirectory(directory_path, query_text, mode, answer) ==
    LET cache_key == CacheKeyOf(directory_path)
    IN  /\ UNCHANGED <<registry, calls, now>>
        /\ IF cache_key \notin DOMAIN registry
           THEN /\ instances' = instances
                /\ last' = NotReached("query_directory", 0, directory_path, query_text,
                                      mode, NotProcessed)
           ELSE LET id == registry[cache_key]
                    instance == touch(instances[id])
                    r == query(instance.cache, instance.working_dir, query_text, mode, answer)
                IN  IF ~Initialized(instance)
                    THEN /\ instances' = [instances EXCEPT ![id] = instance]
                         /\ last' = NotReached("query_directory", id, directory_path,
                                               query_text, mode, NotInitialized)
                    ELSE /\ instances' = [instances EXCEPT ![id] =
                                             [instance EXCEPT
                                                 !.cache = r.cache,
                                                 !.answered = Answered(@, query_text, mode, r)]]
                         /\ last' = Reached("query_directory", id, directory_path,
                                            query_text, mode, r)

QueryWithMultimodal(directory_path, query_text, content, mode, answer) ==
    LET cache_key == CacheKeyOf(directory_path)
    IN  /\ UNCHANGED <<registry, calls, now>>
        /\ IF cache_key \notin DOMAIN registry
           THEN /\ instances' = instances
                /\ last' = [NotReached("query_with_multimodal", 0, directory_path,
                                       query_text, mode, NotProcessed)
                               EXCEPT !.content = content]
           ELSE LET id == registry[cache_key]
                    instance == touch(instances[id])
                    r == query_with_multimodal(instance.cache, instance.working_dir,
                                               query_text, content, mode, answer)
                IN  /\ instances' = [instances EXCEPT ![id] =
                                        [instance EXCEPT !.cache = r.cache]]
                    /\ last' = [Reached("query_with_multimodal", id, directory_path,
                                        query_text, mode, r)
                                   EXCEPT !.content = content]

\* a caller of the utility validator
ValidateQueryMode(mode) ==
    /\ last' = [op |-> "validate_query_mode", mode |-> mode,
                outcome |-> IF validate_query_mode(mode) THEN "returned" ELSE "raised"]
    /\ UNCHANGED <<instances, registry, calls, now>>

----------------------------------------------------------------------------
(* RAGManager.process_single_document *)

\* str(Path(file_path).parent) for the file paths of the model
Parent ==
    ("/a/b/a.txt" :> Dir_ab) @@ ("/a/b/b.md" :> Dir_ab)
       @@ ("/a/b/sub/c.txt" :> <<"a", "b", "sub">>)
       @@ ("/c/x.txt" :> Dir_c) @@ ("/c/missing.txt" :> Dir_c)

\* the keyword parameters of DocumentProcessor.process_single_document
SingleDocumentParams ==
    {"output_dir", "parse_method", "enable_image_processing",
     "enable_table_processing", "enable_equation_processing"}

\* DocumentProcessor.process_single_document(file_path=file_path, **kwargs): the
\* exception raised, or the dict returned
SingleDocument(file_path, kwargs, backend_ok) ==
    IF ~(DOMAIN kwargs \subseteq SingleDocumentParams)
    THEN Exception("TypeError", "unexpected keyword argument", None)
    ELSE IF IsException(Precheck(file_path))
    THEN Precheck(file_path)
    ELSE IngestResult(file_path, backend_ok)

\* a single-document call that took the flag as process_directory does
ProcessSingleDocumentExclusive(file_path, kwargs, backend_ok) ==
    LET directory_path == Parent[file_path]
        id == InstanceFor(directory_path)
        heap == HeapAfterGetOrCreate(directory_path, Get(kwargs, "working_dir", None))
        result == IF AlreadyProcessing(heap[id])
                  THEN Exception("ValueError", "Directory is already being processed", None)
                  ELSE SingleDocument(file_path, kwargs, backend_ok)
    IN  /\ instances' = heap
        /\ registry' = RegistryAfterGetOrCreate(directory_path)
        /\ last' = [op |-> "process_single_document", inst |-> id,
                    key |-> CacheKeyOf(directory_path), file_path |-> file_path,
                    backend |-> IF IsException(result) THEN "not reached"
                                ELSE IF backend_ok THEN "ok" ELSE "failed",
                    outcome |-> IF IsException(result) THEN "raised" ELSE "returned",
                    value |-> result]
        /\ UNCHANGED <<calls, now>>

\* The whole call: the instance of the parent directory is looked up or created,
\* the file is handed to the pipeline, the result is returned or the exception
\* re-raised. Neither is_processing nor is_initialized is written.
ProcessSingleDocument(file_path, kwargs, backend_ok) ==
    LET directory_path == Parent[file_path]
        id == InstanceFor(directory_path)
        result == SingleDocument(file_path, kwargs, backend_ok)
    IN  /\ instances' = HeapAfterGetOrCreate(directory_path, Get(kwargs, "working_dir", None))
        /\ registry' = RegistryAfterGetOrCreate(directory_path)
        /\ last' = [op |-> "process_single_document", inst |-> id,
                    key |-> CacheKeyOf(directory_path), file_path |-> file_path,
                    backend |-> IF IsException(result) THEN "not reached"
                                ELSE IF backend_ok THEN "ok" ELSE "failed",
                    outcome |-> IF IsException(result) THEN "raised" ELSE "returned",
                    value |-> result]
        /\ UNCHANGED <<calls, now>>

----------------------------------------------------------------------------
(* RAGManager.list_processed_directories and RAGManager.get_rag_info *)

\* RAGInstance.get_info
GetInfo(instance) ==
    [directory_path |-> instance.directory_path,
     working_dir |-> instance.working_dir,
     created_at |-> instance.created_at,
     last_accessed |-> instance.last_accessed,
     is_processing |-> instance.is_processing,
     is_initialized |-> instance.is_initialized]

\* the list of infos, as the set of its elements
ListProcessedDirectories ==
    /\ last' = [op |-> "list_processed_directories", outcome |-> "returned",
                value |-> {GetInfo(instances[registry[key]]) : key \in DOMAIN registry}]
    /\ UNCHANGED <<instances, registry, calls, now>>

\* a lookup that touched the instance it reads, as get_or_create_instance does
GetRagInfoTouching(directory_path) ==
    LET cache_key == CacheKeyOf(directory_path)
    IN  /\ instances' = IF cache_key \in DOMAIN registry
                         THEN [instances EXCEPT ![registry[cache_key]] = touch(@)]
                         ELSE instances
        /\ last' = [op |-> "get_rag_info", key |-> cache_key,
                    outcome |-> "returned",
                    value |-> IF cache_key \in DOMAIN registry
                              THEN <<GetInfo(touch(instances[registry[cache_key]]))>>
                              ELSE None]
        /\ UNCHANGED <<registry, calls, now>>

\* the info of the instance registered for the path as <<info>>, or None
GetRagInfo(directory_path) ==
    /\ last' = [op |-> "get_rag_info", key |-> CacheKeyOf(directory_path),
                outcome |-> "returned",
                value |-> IF CacheKeyOf(directory_path) \in DOMAIN registry
                          THEN <<GetInfo(instances[registry[CacheKeyOf(directory_path)]])>>
                          ELSE None]
    /\ UNCHANGED <<instances, registry, calls, now>>

----------------------------------------------------------------------------
(* Tool handlers, src/tools/handlers.py, behind handle_errors of the registry *)

\* BaseHandler.validate_required_params: the required names that are missing. A
\* required parameter sent as null is modelled as a parameter that is not sent.
Missing(params, required) == {name \in required : name \notin DOMAIN params}

MissingRequired == Exception("ValueError", "Missing required parameters", None)

\* the keyword arguments ProcessDirectoryHandler.handle passes to the manager
ProcessDirectoryKwargs(params) ==
    [working_dir |-> Get(params, "working_dir", None),
     file_extensions |-> Get(params, "file_extensions", SUPPORTED_FILE_EXTENSIONS),
     recursive |-> Get(params, "recursive", TRUE),
     enable_image_processing |-> Get(params, "enable_image_processing", TRUE),
     enable_table_processing |-> Get(params, "enable_table_processing", TRUE),
     enable_equation_processing |-> Get(params, "enable_equation_processing", TRUE),
     max_workers |-> Get(params, "max_workers", <<RAG_MAX_WORKERS>>)]

\* the keyword arguments ProcessSingleDocumentHandler.handle passes to the manager
ProcessSingleDocumentKwargs(params) ==
    [working_dir |-> Get(params, "working_dir", None),
     output_dir |-> Get(params, "output_dir", None),
     parse_method |-> Get(params, "parse_method", "auto"),
     enable_image_processing |-> Get(params, "enable_image_processing", TRUE),
     enable_table_processing |-> Get(params, "enable_table_processing", TRUE),
     enable_equation_processing |-> Get(params, "enable_equation_processing", TRUE)]

\* handle_errors, lines 44-64: the error_type of the response for an exception
ErrorType(exc) ==
    IF exc = "ValueError" THEN "ValidationError" ELSE exc

\* result["success"] = True
Tagged(result) ==
    [name \in DOMAIN result \cup {"success"} |->
        IF name = "success" THEN TRUE ELSE result[name]]

\* the dict a handler returns for what the manager returned to it
HandlerResult(l) ==
    IF l.op = "list_processed_directories"
    THEN [success |-> TRUE, directories |-> l.value, total_count |-> Cardinality(l.value)]
    ELSE IF l.op = "get_rag_info"
    THEN IF l.value = None
         THEN [success |-> FALSE, error |-> "No RAG instance found for directory",
               error_type |-> "NotFoundError"]
         ELSE [success |-> TRUE, info |-> l.value[1]]
    ELSE Tagged(l.value)

\* only the first two except clauses of handle_errors
Unhandled(l) ==
    IF l.outcome = "returned"
    THEN HandlerResult(l)
    ELSE IF l.value.exc \in {"ValueError", "FileNotFoundError"}
    THEN [success |-> FALSE, error |-> l.value.msg, error_type |-> ErrorType(l.value.exc)]
    ELSE l.value

\* What the caller of a tool receives for the operation recorded in l: the dict
\* the handler returns, or the error dict of handle_errors for what it raised
ToolResponse(l) ==
    IF l.outcome = "raised"
    THEN [success |-> FALSE, error |-> l.value.msg, error_type |-> ErrorType(l.value.exc)]
    ELSE HandlerResult(l)

\* ProcessDirectoryHandler.handle
HandleProcessDirectory(c, params) ==
    IF Missing(params, {"directory_path", "api_key"}) # {}
    THEN /\ last' = [op |-> "process_directory", inst |-> 0, key |-> <<>>,
                     outcome |-> "raised",
                     value |-> MissingRequired,
                     files |-> <<>>, results |-> <<>>, max_workers |-> None]
         /\ UNCHANGED <<instances, registry, calls, now>>
    ELSE ProcessDirectory(c, params.directory_path, ProcessDirectoryKwargs(params))

\* ProcessSingleDocumentHandler.handle
HandleProcessSingleDocument(params, backend_ok) ==
    IF Missing(params, {"file_path", "api_key"}) # {}
    THEN /\ last' = [op |-> "process_single_document", inst |-> 0, key |-> <<>>,
                     file_path |-> Get(params, "file_path", ""),
                     backend |-> "not reached", outcome |-> "raised",
                     value |-> MissingRequired]
         /\ UNCHANGED <<instances, registry, calls, now>>
    ELSE ProcessSingleDocument(params.file_path, ProcessSingleDocumentKwargs(params),
                               backend_ok)

\* QueryDirectoryHandler.handle. The dict the manager returns is the dict the
\* cache holds, so result["success"] = True writes to the cache entry.
HandleQueryDirectory(params, answer) ==
    LET directory_path == Get(params, "directory_path", <<>>)
        query_text == Get(params, "query", "")
        mode == Get(params, "mode", "hybrid")
        cache_key == CacheKeyOf(directory_path)
    IN  IF Missing(params, {"directory_path", "query"}) # {}
        THEN /\ last' = NotReached("query_directory", 0, directory_path, query_text,
                                   mode, MissingRequired)
             /\ UNCHANGED <<instances, registry, calls, now>>
        ELSE IF cache_key \notin DOMAIN registry
        THEN QueryDirectory(directory_path, query_text, mode, answer)
        ELSE IF ~Initialized(instances[registry[cache_key]])
        THEN QueryDirectory(directory_path, query_text, mode, answer)
        ELSE LET id == registry[cache_key]
                 instance == touch(instances[id])
                 r == query(instance.cache, instance.working_dir, query_text, mode, answer)
                 key == QueryCacheKey(mode, query_text)
                 cache == IF r.outcome = "returned" /\ key \in DOMAIN r.cache
                          THEN [r.cache EXCEPT ![key] = Tagged(@)]
                          ELSE r.cache
             IN  /\ instances' = [instances EXCEPT ![id] =
                                     [instance EXCEPT
                                         !.cache = cache,
                                         !.answered = Answered(@, query_text, mode, r)]]
                 /\ last' = Reached("query_directory", id, directory_path,
                                    query_text, mode, r)
                 /\ UNCHANGED <<registry, calls, now>>

\* QueryWithMultimodalHandler.handle
HandleQueryWithMultimodal(params, answer) ==
    IF Missing(params, {"directory_path", "query", "multimodal_content"}) # {}
    THEN /\ last' = [NotReached("query_with_multimodal", 0,
                                Get(params, "directory_path", <<>>),
                                Get(params, "query", ""), Get(params, "mode", "hybrid"),
                                MissingRequired)
                        EXCEPT !.content = Get(params, "multimodal_content", PyList(<<>>))]
         /\ UNCHANGED <<instances, registry, calls, now>>
    ELSE QueryWithMultimodal(params.directory_path, params.query,
                             params.multimodal_content, Get(params, "mode", "hybrid"),
                             answer)

\* ListProcessedDirectoriesHandler.handle
HandleListProcessedDirectories == ListProcessedDirectories

\* GetRAGInfoHandler.handle
HandleGetRAGInfo(params) ==
    IF Missing(params, {"directory_path"}) # {}
    THEN /\ last' = [op |-> "get_rag_info", key |-> <<>>, outcome |-> "raised",
                     value |-> MissingRequired]
         /\ UNCHANGED <<instances, registry, calls, now>>
    ELSE GetRagInfo(params.directory_path)

----------------------------------------------------------------------------
(* RetryHandler.retry_async, src/utils/retry.py. The coroutine's frame is held *)
(* in calls[c]: the loop index, the calls of func made, their outcomes, the   *)
(* sleeps, and the events in the order they happened.                         *)

MaxRetries == 2

\* the defaults of the backoff, in seconds; the model runs with jitter off
backoff_factor == 2
initial_delay == 1
max_delay == 60

Min(a, b) == IF a <= b THEN a ELSE b

\* `except exceptions as e`: e is an instance of a listed class
Caught(exc, exceptions) == "Exception" \in exceptions \/ exc \in exceptions

NeverLastAttempt(attempt, max_retries) == FALSE

\* line 59
LastAttempt(attempt, max_retries) == attempt = max_retries

\* `last` when retry_async ends
RetryEnded(frame, outcome, value) ==
    [op |-> "retry_async", outcome |-> outcome, value |-> value,
     max_retries |-> frame.max_retries, exceptions |-> frame.exceptions,
     outcomes |-> frame.outcomes, events |-> frame.events, delay |-> frame.delay]

\* lines 50-53: the call up to the first `await func()`. With an empty range the
\* loop is skipped and line 71 raises None, which is a TypeError.
retry_async(c, max_retries, exceptions) ==
    LET frame == [pc |-> "attempt", inst |-> 0, attempt |-> 0,
                  max_retries |-> max_retries, exceptions |-> exceptions,
                  outcomes |-> <<>>, events |-> <<>>, delay |-> initial_delay]
    IN  /\ calls[c].pc = "idle"
        /\ IF max_retries + 1 <= 0
           THEN /\ calls' = calls
                /\ last' = RetryEnded(frame, "raised",
                                      Exception("TypeError",
                                                "exceptions must derive from BaseException", None))
           ELSE /\ calls' = [calls EXCEPT ![c] = frame]
                /\ last' = NoOp
        /\ UNCHANGED <<instances, registry, now>>

\* lines 54-66: func is called and returns result[1], or raises the exception
\* named by result
RetryAttempt(c, result) ==
    /\ calls[c].pc = "attempt"
    /\ LET frame == [calls[c] EXCEPT !.outcomes = Append(@, result),
                                     !.events = Append(@, "call")]
       IN  IF ~IsException(result)
           THEN /\ calls' = [calls EXCEPT ![c] = IdleCall]
                /\ last' = RetryEnded(frame, "returned", result)
           ELSE IF ~Caught(result.exc, frame.exceptions)
           THEN /\ calls' = [calls EXCEPT ![c] = IdleCall]
                /\ last' = RetryEnded(frame, "raised", result)
           ELSE IF LastAttempt(frame.attempt, frame.max_retries)
           THEN /\ calls' = [calls EXCEPT ![c] = IdleCall]
                /\ last' = RetryEnded(frame, "raised", result)
           ELSE /\ calls' = [calls EXCEPT ![c] =
                                [frame EXCEPT !.pc = "sleep",
                                              !.delay = Min(@ * backoff_factor, max_delay)]]
                /\ last' = NoOp
    /\ UNCHANGED <<instances, registry, now>>

\* line 68 and the head of the loop: the sleep is over; the next attempt, or
\* line 71 when the range is used up
RetrySleep(c) ==
    /\ calls[c].pc = "sleep"
    /\ LET frame == [calls[c] EXCEPT !.events = Append(@, "sleep"),
                                     !.attempt = @ + 1]
       IN  IF frame.attempt > frame.max_retries
           THEN /\ calls' = [calls EXCEPT ![c] = IdleCall]
                /\ last' = RetryEnded(frame, "raised",
                                      frame.outcomes[Len(frame.outcomes)])
           ELSE /\ calls' = [calls EXCEPT ![c] = [frame EXCEPT !.pc = "attempt"]]
                /\ last' = NoOp
    /\ UNCHANGED <<instances, registry, now>>

----------------------------------------------------------------------------
(* RAGManager.cleanup_stale_instances and RAGManager.cleanup *)

StaleKeysByAge(ttl_seconds) ==
    { key \in DOMAIN registry :
        instances[registry[key]].last_accessed < now - ttl_seconds }

\* lines 357-363: cutoff_time and stale_keys
StaleKeys(ttl_seconds) ==
    { key \in DOMAIN registry :
        /\ instances[registry[key]].last_accessed < now - ttl_seconds
        /\ ~instances[registry[key]].is_processing }

Without(reg, keys) == [key \in DOMAIN reg \ keys |-> reg[key]]

CleanupStaleInstances(ttl_seconds) ==
    LET reg == Without(registry, StaleKeys(ttl_seconds))
    IN  /\ registry' = reg
        /\ instances' = Collect(instances, reg, calls)
        /\ last' = [op |-> "cleanup_stale_instances", ttl |-> ttl_seconds,
                    removed |-> StaleKeys(ttl_seconds)]
        /\ UNCHANGED <<calls, now>>

CleanupIdleOnly ==
    LET reg == Without(registry,
                       {key \in DOMAIN registry : ~instances[registry[key]].is_processing})
    IN  /\ registry' = reg
        /\ instances' = Collect(instances, reg, calls)
        /\ last' = [op |-> "cleanup"]
        /\ UNCHANGED <<calls, now>>

\* lines 372-385: every instance is dropped from the map
Cleanup ==
    /\ registry' = <<>>
    /\ instances' = Collect(instances, <<>>, calls)
    /\ last' = [op |-> "cleanup"]
    /\ UNCHANGED <<calls, now>>

----------------------------------------------------------------------------
Init ==
    /\ instances = [i \in InstIds |-> NoInstance]
    /\ registry = NoCache
    /\ calls = [c \in CallIds |-> IdleCall]
    /\ now = 0
    /\ last = NoOp

Tick ==
    /\ now < MaxTime
    /\ now' = now + 1
    /\ last' = NoOp
    /\ UNCHANGED <<instances, registry, calls>>

----------------------------------------------------------------------------
(* Inputs *)

\* spellings of the two directories
DirInputs == {<<"a", "b">>, <<"a", ".", "b">>, <<"c">>}

\* options that keep a batch to one file, make the scan empty, or make the call fail
SmallKwargsInputs ==
    { [file_extensions |-> <<Ext_txt>>, recursive |-> FALSE],
      [file_extensions |-> <<Ext_pdf>>],
      [working_dir |-> None] }

\* options of one batch: the defaults, limits that bind, limits that are falsy or
\* negative, a narrower scan, a keyword the pipeline is handed twice
BatchKwargsInputs ==
    { <<>>,
      [max_workers |-> <<1>>],
      [max_workers |-> <<2>>],
      [max_workers |-> <<0>>],
      [max_workers |-> <<-1>>],
      [recursive |-> FALSE],
      [file_extensions |-> <<Ext_pdf>>],
      [working_dir |-> None] }

\* options that end the call at once: an empty scan, a semaphore that cannot be made
QueryKwargsInputs ==
    { [file_extensions |-> <<Ext_pdf>>],
      [max_workers |-> <<-1>>] }

QueryInputs == {"what is X"}

ModeInputs == {"hybrid", "local", "not-a-mode"}

AllModeInputs ==
    {"hybrid", "local", "global", "naive", "mix", "bypass", "not-a-mode", "Hybrid", ""}

AnswerInputs == {None, <<"r1">>, <<"r2">>}

ContentInputs ==
    { PyList(<<>>),
      PyList(<<PyDict([type |-> "table", table_data |-> "t"])>>),
      PyList(<<PyDict([type |-> "table"])>>) }

TtlInputs == {0, 1}

UnitIds == 1 .. Cardinality(FileSystem)

----------------------------------------------------------------------------
(* The registry under concurrent process_directory calls and eviction *)

Next ==
    \/ Tick
    \/ \E c \in CallIds, d \in DirInputs, kw \in SmallKwargsInputs : ProcessDirectory(c, d, kw)
    \/ \E c \in CallIds, i \in UnitIds : UnitStart(c, i)
    \/ \E c \in CallIds, i \in UnitIds, ok \in BOOLEAN : UnitFinish(c, i, ok)
    \/ \E c \in CallIds : ProcessDirectoryReturn(c)
    \/ \E ttl \in TtlInputs : CleanupStaleInstances(ttl)

Spec == Init /\ [][Next]_vars

(* One process_directory call at a time, over every scan and every unit order *)

NextBatch ==
    \/ \E d \in DirInputs, kw \in BatchKwargsInputs : ProcessDirectory(1, d, kw)
    \/ \E i \in UnitIds : UnitStart(1, i)
    \/ \E i \in UnitIds, ok \in BOOLEAN : UnitFinish(1, i, ok)
    \/ ProcessDirectoryReturn(1)

SpecBatch == Init /\ [][NextBatch]_vars

\* The event loop runs a unit that can take a permit, the backend finishes every
\* file it was given, and a call whose gather is complete is resumed.
SpecBatchLive ==
    /\ SpecBatch
    /\ WF_vars(\E i \in UnitIds : UnitStart(1, i))
    /\ WF_vars(\E i \in UnitIds, ok \in BOOLEAN : UnitFinish(1, i, ok))
    /\ WF_vars(ProcessDirectoryReturn(1))

(* Queries against ingested and not ingested directories *)

NextQuery ==
    \/ \E d \in DirInputs, kw \in QueryKwargsInputs : ProcessDirectory(1, d, kw)
    \/ \E d \in DirInputs, q \in QueryInputs, m \in ModeInputs, a \in AnswerInputs :
          QueryDirectory(d, q, m, a)
    \/ \E d \in DirInputs, q \in QueryInputs, m \in ModeInputs, a \in AnswerInputs,
          items \in ContentInputs : QueryWithMultimodal(d, q, items, m, a)

SpecQuery == Init /\ [][NextQuery]_vars

(* Every mode, through both validators *)

NextModes ==
    \/ ProcessDirectory(1, Dir_c, [file_extensions |-> <<Ext_pdf>>])
    \/ \E m \in AllModeInputs : QueryDirectory(Dir_c, "what is X", m, <<"r1">>)
    \/ \E m \in AllModeInputs :
          QueryWithMultimodal(Dir_c, "what is X", PyList(<<>>), m, <<"r1">>)
    \/ \E m \in AllModeInputs : ValidateQueryMode(m)

SpecModes == Init /\ [][NextModes]_vars

(* The life of an instance: ingestion calls that succeed, fail and are rejected, *)
(* single documents, queries and eviction                                        *)

\* two spellings of one directory
LifeDirInputs == {Dir_c, <<".", "c">>}

\* one file, an empty scan, a semaphore that cannot be made
LifeKwargsInputs ==
    { [file_extensions |-> <<Ext_txt>>, recursive |-> FALSE],
      [file_extensions |-> <<Ext_pdf>>],
      [max_workers |-> <<-1>>] }

FileInputs == {"/c/x.txt", "/c/missing.txt"}

NextLifecycle ==
    \/ Tick
    \/ \E c \in CallIds, d \in LifeDirInputs, kw \in LifeKwargsInputs :
          ProcessDirectory(c, d, kw)
    \/ \E c \in CallIds, i \in UnitIds : UnitStart(c, i)
    \/ \E c \in CallIds, i \in UnitIds, ok \in BOOLEAN : UnitFinish(c, i, ok)
    \/ \E c \in CallIds : ProcessDirectoryReturn(c)
    \/ \E f \in FileInputs, ok \in BOOLEAN : ProcessSingleDocument(f, <<>>, ok)
    \/ \E d \in LifeDirInputs, a \in {None, <<"r1">>} :
          QueryDirectory(d, "what is X", "hybrid", a)
    \/ \E d \in LifeDirInputs :
          QueryWithMultimodal(d, "what is X", PyList(<<>>), "hybrid", <<"r1">>)
    \/ \E ttl \in TtlInputs : CleanupStaleInstances(ttl)

SpecLifecycle == Init /\ [][NextLifecycle]_vars

(* Ingestion and queries of a directory that exists and of a path where *)
(* nothing exists                                                        *)

MissingDirInputs == {Dir_c, Dir_missing}

NextMissing ==
    \/ \E d \in MissingDirInputs, kw \in {<<>>, [recursive |-> FALSE]} :
          ProcessDirectory(1, d, kw)
    \/ \E i \in UnitIds : UnitStart(1, i)
    \/ \E i \in UnitIds, ok \in BOOLEAN : UnitFinish(1, i, ok)
    \/ ProcessDirectoryReturn(1)
    \/ \E d \in MissingDirInputs, a \in AnswerInputs :
          QueryDirectory(d, "what is X", "hybrid", a)

SpecMissing == Init /\ [][NextMissing]_vars

(* The tools as a client calls them *)

\* requests for process_directory: the required inputs alone for every spelling,
\* a request with an option, a request without api_key
DirectoryParamsInputs ==
    { [directory_path |-> d, api_key |-> "k"] : d \in DirInputs }
       \cup { [directory_path |-> Dir_c, api_key |-> "k", max_workers |-> <<1>>],
              [directory_path |-> Dir_c] }

\* requests for process_single_document: the required inputs alone, for files
\* that exist and one that does not, and a request without file_path
FileParamsInputs ==
    { [file_path |-> f, api_key |-> "k"] : f \in {"/a/b/a.txt", "/c/x.txt", "/c/missing.txt"} }
       \cup { [api_key |-> "k"] }

\* requests for query_directory: with a mode, without one, without a query
QueryParamsInputs ==
    { [directory_path |-> d, query |-> "what is X", mode |-> m] :
         d \in DirInputs, m \in ModeInputs }
       \cup { [directory_path |-> d, query |-> "what is X"] : d \in DirInputs }
       \cup { [directory_path |-> Dir_c] }

\* requests for query_with_multimodal_content: with items, without them
MultimodalParamsInputs ==
    { [directory_path |-> d, query |-> "what is X", multimodal_content |-> items,
       mode |-> m] : d \in DirInputs, items \in ContentInputs, m \in ModeInputs }
       \cup { [directory_path |-> Dir_c, query |-> "what is X"] }

\* requests for get_rag_info: a path, nothing
InfoParamsInputs == { [directory_path |-> d] : d \in DirInputs } \cup { <<>> }

NextTools ==
    \/ Tick
    \/ \E params \in DirectoryParamsInputs : HandleProcessDirectory(1, params)
    \/ \E params \in FileParamsInputs, ok \in BOOLEAN :
          HandleProcessSingleDocument(params, ok)
    \/ \E params \in QueryParamsInputs : HandleQueryDirectory(params, <<"r1">>)
    \/ \E params \in MultimodalParamsInputs, a \in {None, <<"r1">>} :
          HandleQueryWithMultimodal(params, a)
    \/ HandleListProcessedDirectories
    \/ \E params \in InfoParamsInputs : HandleGetRAGInfo(params)
    \/ \E ttl \in TtlInputs : CleanupStaleInstances(ttl)

SpecTools == Init /\ [][NextTools]_vars

(* process_directory under its options: a working directory of the caller, *)
(* extension lists with a repeated entry and with overlapping entries       *)

Ext_xt == <<"x", "t">>

OptionsKwargsInputs ==
    { <<>>,
      [working_dir |-> <<"w">>],
      [file_extensions |-> <<Ext_txt, Ext_txt>>],
      [file_extensions |-> <<Ext_txt, Ext_xt>>, recursive |-> FALSE] }

NextOptions ==
    \/ \E d \in DirInputs, kw \in OptionsKwargsInputs : ProcessDirectory(1, d, kw)
    \/ \E i \in UnitIds : UnitStart(1, i)
    \/ \E i \in UnitIds, ok \in BOOLEAN : UnitFinish(1, i, ok)
    \/ ProcessDirectoryReturn(1)

SpecOptions == Init /\ [][NextOptions]_vars

(* Files that fail the checks, in a batch and in direct calls *)

CheckedFileInputs == {"/a/b/a.txt", "/a/b/sub/c.txt", "/c/missing.txt"}

NextChecks ==
    \/ ProcessDirectory(1, Dir_ab, <<>>)
    \/ \E i \in UnitIds : UnitStart(1, i)
    \/ \E i \in UnitIds, ok \in BOOLEAN : UnitFinish(1, i, ok)
    \/ ProcessDirectoryReturn(1)
    \/ \E f \in CheckedFileInputs, ok \in BOOLEAN : ProcessSingleDocument(f, <<>>, ok)

SpecChecks == Init /\ [][NextChecks]_vars

(* Multimodal queries over item lists of every shape *)

ItemInputs ==
    { PyStr("not a record"),
      PyDict([note |-> "no type"]),
      PyDict([type |-> "table", table_data |-> "t"]),
      PyDict([type |-> "table"]),
      PyDict([type |-> "equation", latex |-> "e"]),
      PyDict([type |-> "equation"]),
      PyDict([type |-> "image", image_url |-> "u"]),
      PyDict([type |-> "image", image_path |-> "p"]),
      PyDict([type |-> "image"]),
      PyDict([type |-> "audio"]) }

MaxItems == 2

\* the items that were accepted before the last item of a list
PrefixInputs ==
    { PyDict([type |-> "table", table_data |-> "t"]), PyDict([type |-> "audio"]) }

\* something that is no list, the empty list, and every list of up to MaxItems
\* items that repeats one accepted item and ends in any item
ItemListInputs ==
    { PyStr("not a list"), PyList(<<>>) }
       \cup { PyList(Append(Repeat(first, n), item)) :
                 first \in PrefixInputs, n \in 0 .. (MaxItems - 1), item \in ItemInputs }

NextItems ==
    \/ \E kw \in QueryKwargsInputs : ProcessDirectory(1, Dir_c, kw)
    \/ \E items \in ItemListInputs, m \in {"hybrid", "not-a-mode"}, a \in {None, <<"r1">>} :
          QueryWithMultimodal(Dir_c, "what is X", items, m, a)

SpecItems == Init /\ [][NextItems]_vars

(* Shutdown while directories are idle and while they are processing *)

ShutdownKwargsInputs ==
    { [file_extensions |-> <<Ext_txt>>, recursive |-> FALSE],
      [file_extensions |-> <<Ext_pdf>>] }

NextShutdown ==
    \/ \E c \in CallIds, d \in LifeDirInputs, kw \in ShutdownKwargsInputs :
          ProcessDirectory(c, d, kw)
    \/ \E c \in CallIds, i \in UnitIds : UnitStart(c, i)
    \/ \E c \in CallIds, i \in UnitIds, ok \in BOOLEAN : UnitFinish(c, i, ok)
    \/ \E c \in CallIds : ProcessDirectoryReturn(c)
    \/ \E d \in LifeDirInputs, a \in {None, <<"r1">>} :
          QueryDirectory(d, "what is X", "hybrid", a)
    \/ ListProcessedDirectories
    \/ Cleanup

SpecShutdown == Init /\ [][NextShutdown]_vars

(* Two directories ingested at once, each call with its own max_workers *)

GateKwargsInputs == { [max_workers |-> <<1>>], [max_workers |-> <<2>>] }

NextGates ==
    \/ \E c \in CallIds, d \in {Dir_ab, Dir_c}, kw \in GateKwargsInputs :
          ProcessDirectory(c, d, kw)
    \/ \E c \in CallIds, i \in UnitIds : UnitStart(c, i)
    \/ \E c \in CallIds, i \in UnitIds, ok \in BOOLEAN : UnitFinish(c, i, ok)
    \/ \E c \in CallIds : ProcessDirectoryReturn(c)

SpecGates == Init /\ [][NextGates]_vars

(* The registry on its own: instances made, read, queried and evicted *)

RegistryDirInputs == {Dir_c, <<".", "c">>, Dir_ac}

NextRegistry ==
    \/ Tick
    \/ \E d \in RegistryDirInputs, w \in {None, <<"w">>} : GetOrCreateInstance(d, w)
    \/ \E d \in RegistryDirInputs : GetRagInfo(d)
    \/ ListProcessedDirectories
    \/ \E d \in DirInputs : QueryDirectory(d, "what is X", "hybrid", <<"r1">>)
    \/ \E ttl \in TtlInputs : CleanupStaleInstances(ttl)

SpecRegistry == Init /\ [][NextRegistry]_vars

(* retry_async over every run of a func that returns or raises *)

\* what one call of func does: it returns, or raises one of three exceptions
FuncInputs ==
    { [value |-> "v"],
      Exception("ConnectionError", "refused", None),
      Exception("TimeoutError", "timed out", None),
      Exception("KeyError", "k", None) }

\* the default, one class, two classes
ExceptionsInputs ==
    { {"Exception"}, {"ConnectionError"}, {"ConnectionError", "TimeoutError"} }

NextRetry ==
    \/ \E n \in -1 .. MaxRetries, listed \in ExceptionsInputs : retry_async(1, n, listed)
    \/ \E result \in FuncInputs : RetryAttempt(1, result)
    \/ RetrySleep(1)

SpecRetry == Init /\ [][NextRetry]_vars

(* One directory ingested again and again while the registry is evicted and *)
(* cleared                                                                   *)

NextResets ==
    \/ Tick
    \/ \E c \in CallIds :
          ProcessDirectory(c, Dir_c, [file_extensions |-> <<Ext_txt>>, recursive |-> FALSE])
    \/ \E c \in CallIds, i \in UnitIds : UnitStart(c, i)
    \/ \E c \in CallIds, i \in UnitIds, ok \in BOOLEAN : UnitFinish(c, i, ok)
    \/ \E c \in CallIds : ProcessDirectoryReturn(c)
    \/ \E ttl \in TtlInputs : CleanupStaleInstances(ttl)
    \/ Cleanup

SpecResets == Init /\ [][NextResets]_vars

(* Queries through the query_directory tool on directories ingested by the *)
(* manager                                                                  *)

CacheTagParamsInputs ==
    { [directory_path |-> d, query |-> "what is X", mode |-> m] :
         d \in LifeDirInputs, m \in ModeInputs }
       \cup { [directory_path |-> Dir_c] }

NextCacheTag ==
    \/ \E d \in LifeDirInputs : ProcessDirectory(1, d, [file_extensions |-> <<Ext_pdf>>])
    \/ \E params \in CacheTagParamsInputs, a \in {None, <<"r1">>, <<"r2">>} :
          HandleQueryDirectory(params, a)
    \/ \E d \in LifeDirInputs, m \in {"hybrid", "local"}, a \in {None, <<"r1">>} :
          QueryDirectory(d, "what is X", m, a)

SpecCacheTag == Init /\ [][NextCacheTag]_vars

----------------------------------------------------------------------------
(* Properties *)

\* the calls that are suspended in a batch on instance id
RunningOn(id) == {c \in CallIds : calls[c].pc # "idle" /\ calls[c].inst = id}

\* the last operation was a process_directory call that ended with the given error
EndedWith(type, msg) ==
    /\ last.op = "process_directory"
    /\ last.outcome = "raised"
    /\ last.value.exc = type
    /\ last.value.msg = msg

\* the units of call c that have started at the backend and not finished
InFlight(c) == Cardinality({i \in DOMAIN calls[c].units : calls[c].units[i].st = "backend"})

\* the units of the last batch that reached the backend and failed there
FailedAtBackend ==
    {i \in DOMAIN last.results :
        /\ last.results[i].st = "done"
        /\ ~IsException(last.results[i].result)
        /\ last.results[i].result.status = "error"}

\* the units of the last batch whose file is larger than the maximum size
OverSize ==
    {i \in DOMAIN last.files : FileAt(last.files[i]).st_size > MAX_FILE_SIZE_MB * BytesPerMB}

\* the units of the last batch that ended in a result dict with status "success"
Succeeded ==
    {i \in DOMAIN last.results :
        /\ last.results[i].st = "done"
        /\ ~IsException(last.results[i].result)
        /\ last.results[i].result.status = "success"}

\* the paths of the error list of the last report
ErrorPaths == [j \in DOMAIN last.value.errors |-> last.value.errors[j].file_path]

\* the sequence s holds exactly the files of the units in `units`, each once
OnePerUnit(s, units) ==
    \E f \in [DOMAIN s -> units] :
        /\ \A j, k \in DOMAIN s : j # k => f[j] # f[k]
        /\ \A i \in units : \E j \in DOMAIN s : f[j] = i
        /\ \A j \in DOMAIN s : s[j] = last.files[f[j]]

\* C1: Mutual exclusion. At no time are two process_directory calls running a
\* batch on the same instance; while a call is running the instance is marked as
\* processing; and a process_directory call that ends while another call is still
\* running on its instance is one that was rejected with "Directory is already
\* being processed".
C1_MutualExclusion ==
    /\ \A id \in InstIds : Cardinality(RunningOn(id)) <= 1
    /\ \A id \in InstIds : RunningOn(id) # {} => instances[id].is_processing
    /\ (last.op = "process_directory" /\ RunningOn(last.inst) # {})
          => EndedWith("ValueError", "Directory is already being processed")

\* a call was rejected while another call is suspended in its batch on that instance
C1_Witness ==
    /\ EndedWith("ValueError", "Directory is already being processed")
    /\ RunningOn(last.inst) # {}
    /\ instances[last.inst].is_processing

\* C2: Guaranteed release. An instance is marked as processing only while a call
\* that set the mark is still running: when that call has ended, by returning a
\* report or by raising, the mark is clear. A process_directory call is rejected
\* with "Directory is already being processed" only while another call is running
\* on the instance, so a call made after the release is accepted.
C2_GuaranteedRelease ==
    /\ \A id \in InstIds :
          (instances[id] # NoInstance /\ instances[id].is_processing)
             => RunningOn(id) # {}
    /\ (last.op = "process_directory"
           /\ ~EndedWith("ValueError", "Directory is already being processed"))
          => ~instances[last.inst].is_processing
    /\ EndedWith("ValueError", "Directory is already being processed")
          => RunningOn(last.inst) # {}

\* a call that had set the mark ended by raising, and the instance is idle
C2_Witness ==
    /\ EndedWith("TypeError", "multiple values for working_dir")
    /\ RunningOn(last.inst) = {}
    /\ ~instances[last.inst].is_processing

\* C3: Batch conservation. The report of a batch of N scanned files of which K
\* failed at the backend has total_files = N, processed + failed + skipped = N
\* and failed_files = K, and its error list holds the path of every file that
\* failed at the backend exactly once and nothing else.
C3_BatchConservation ==
    (last.op = "process_directory" /\ last.outcome = "returned")
       => /\ last.value.total_files = Len(last.files)
          /\ last.value.processed_files + last.value.failed_files
                + last.value.skipped_files = Len(last.files)
          /\ last.value.failed_files = Cardinality(FailedAtBackend)
          /\ OnePerUnit(ErrorPaths, FailedAtBackend)

\* C4: Size-limit classification. In the report of a batch every file larger than
\* the maximum size is counted in skipped_files and is absent from failed_files
\* and from the error list; a batch of 3 files of which exactly one is too large
\* and the others are ingested reports total 3, processed 2, failed 0, skipped 1.
C4_SizeLimitSkipped ==
    (last.op = "process_directory" /\ last.outcome = "returned")
       => /\ last.value.skipped_files = Cardinality(OverSize)
          /\ last.value.failed_files = Cardinality(FailedAtBackend)
          /\ \A j \in DOMAIN ErrorPaths :
                \A i \in OverSize : ErrorPaths[j] # last.files[i]
          /\ (Len(last.files) = 3 /\ Cardinality(OverSize) = 1
                 /\ Cardinality(Succeeded) = 2)
                => /\ last.value.total_files = 3
                   /\ last.value.processed_files = 2
                   /\ last.value.failed_files = 0
                   /\ last.value.skipped_files = 1

\* C5 as stated: during a batch the number of files in ingestion is at most the
\* max_workers option, or the configured default when no option is given.
C5_BoundedByOption ==
    \A c \in CallIds :
        calls[c].pc = "gather"
           => InFlight(c) <= (IF calls[c].max_workers = None
                              THEN RAG_MAX_WORKERS
                              ELSE calls[c].max_workers[1])

\* C5: Bounded concurrency. During a batch the number of files in ingestion is at
\* most the limit of the batch: the max_workers option when it is a positive
\* integer, the configured default when the option is absent, None or 0. A
\* batch never runs with a negative option.
C5_BoundedConcurrency ==
    \A c \in CallIds :
        calls[c].pc = "gather"
           => /\ calls[c].max_workers # None => calls[c].max_workers[1] >= 0
              /\ InFlight(c) <= (IF calls[c].max_workers \in {None, <<0>>}
                                 THEN RAG_MAX_WORKERS
                                 ELSE calls[c].max_workers[1])

\* the limit binds: a batch has max_workers files in ingestion and a file waiting
C5_Witness ==
    \E c \in CallIds :
        /\ calls[c].pc = "gather"
        /\ calls[c].max_workers \notin {None, <<0>>}
        /\ InFlight(c) = calls[c].max_workers[1]
        /\ \E i \in DOMAIN calls[c].units :
              /\ calls[c].units[i].st = "waiting"
              /\ ~IsException(Precheck(calls[c].files[i]))

\* C6: Barrier. When a batch has returned its report, or has ended in any other
\* way, every unit dispatched for it has completed with a result or a failure:
\* none is waiting to start and none is at the backend.
C6_Barrier ==
    (last.op = "process_directory" /\ last.files # <<>>)
       => /\ DOMAIN last.results = DOMAIN last.files
          /\ \A i \in DOMAIN last.results : last.results[i].st = "done"

\* a batch of three units, one failing before the backend, has returned its report
C6_Witness ==
    /\ last.op = "process_directory"
    /\ last.outcome = "returned"
    /\ Len(last.files) = 3
    /\ \E i \in DOMAIN last.results : IsException(last.results[i].result)

\* C7: Partial-failure isolation. A batch that was dispatched returns a report,
\* whatever its units did: every file of the batch has its own outcome, the
\* successful units are all counted in processed_files, and the error list names
\* the failing files and only them.
C7_PartialFailureIsolation ==
    (last.op = "process_directory" /\ last.files # <<>>)
       => /\ last.outcome = "returned"
          /\ last.value.total_files = Len(last.files)
          /\ last.value.processed_files = Cardinality(Succeeded)
          /\ last.value.failed_files = Len(last.files) - Cardinality(Succeeded)
          /\ OnePerUnit(ErrorPaths, DOMAIN last.files \ Succeeded)

\* one file failed its checks, one failed at the backend, and a third was ingested
C7_Witness ==
    /\ last.op = "process_directory"
    /\ last.files # <<>>
    /\ FailedAtBackend # {}
    /\ Succeeded # {}
    /\ \E i \in DOMAIN last.results : IsException(last.results[i].result)

\* C8: Cache correctness. For every instance and every (mode, query text) the
\* backend has produced at most one answer, and every payload that
\* query_directory returns for that mode and text is that one answer: a repeated
\* query returns the payload of the first and does not invoke the backend.
C8_CacheCorrectness ==
    /\ \A id \in InstIds :
          instances[id] # NoInstance
             => \A k \in DOMAIN instances[id].answered :
                   Len(instances[id].answered[k]) <= 1
    /\ (last.op = "query_directory" /\ last.outcome = "returned")
          => /\ <<last.mode, last.query>> \in DOMAIN instances[last.inst].answered
             /\ instances[last.inst].answered[<<last.mode, last.query>>] = <<last.value>>
             /\ last.hit = ~last.invoked

\* a repeated query was answered from the cache with the first answer, on a
\* registry whose caches hold a different answer under another key
C8_Witness ==
    /\ last.op = "query_directory"
    /\ last.outcome = "returned"
    /\ last.hit
    /\ ~last.invoked
    /\ last.value.response = "r1"
    /\ \E id \in InstIds :
          /\ instances[id] # NoInstance
          /\ \E k \in DOMAIN instances[id].cache : instances[id].cache[k].response = "r2"

\* C9: Mode validation comes first. A text or multimodal query that reaches the
\* Query Executor with a mode outside hybrid, local, global, naive, mix, bypass
\* raises the invalid-mode validation error, does not invoke the backend, and
\* leaves the instance's cache and the backend's answers as they were.
C9_ModeValidationFirst ==
    [][ (/\ last'.op \in {"query_directory", "query_with_multimodal"}
         /\ last'.executor
         /\ last'.mode \notin {"hybrid", "local", "global", "naive", "mix", "bypass"})
           => /\ last'.outcome = "raised"
              /\ last'.value = Exception("ValueError", "Invalid query mode", None)
              /\ ~last'.invoked
              /\ instances'[last'.inst].cache = instances[last'.inst].cache
              /\ instances'[last'.inst].answered = instances[last'.inst].answered ]_vars

\* a query with an invalid mode reached the executor of an instance that has a
\* cached answer
C9_Witness ==
    /\ last.op \in {"query_directory", "query_with_multimodal"}
    /\ last.executor
    /\ last.mode = "not-a-mode"
    /\ last.outcome = "raised"
    /\ DOMAIN instances[last.inst].cache # {}

\* C10: the utility validator accepts a mode exactly when it is one of hybrid,
\* local, global, naive, mix, bypass, and the Query Executor rejects a mode as
\* invalid exactly when it is not one of them: the two validators agree.
C10_ValidModes ==
    /\ last.op = "validate_query_mode"
          => ((last.outcome = "returned")
                 <=> last.mode \in {"hybrid", "local", "global", "naive", "mix", "bypass"})
    /\ (last.op \in {"query_directory", "query_with_multimodal"} /\ last.executor)
          => ((last.outcome = "returned")
                 <=> last.mode \in {"hybrid", "local", "global", "naive", "mix", "bypass"})

\* the utility validator has rejected a mode that differs from a valid one by case
C10_Witness ==
    /\ last.op = "validate_query_mode"
    /\ last.mode = "Hybrid"
    /\ last.outcome = "raised"

\* C11: query_directory resolution. A query_directory call on a path with no
\* registered instance raises "Directory not processed" and changes neither the
\* registry nor any instance; on an instance that has never completed an
\* ingestion it raises "Directory not fully initialized", without reaching the
\* Query Executor or the backend and with the cache, the backend's answers and
\* the registry as they were; in every other case the query is delegated to the
\* Query Executor of the registered instance.
C11_QueryResolution ==
    [][ last'.op = "query_directory"
          => IF last'.key \notin DOMAIN registry
             THEN /\ last'.outcome = "raised"
                  /\ last'.value = Exception("ValueError", "Directory not processed", None)
                  /\ ~last'.executor /\ ~last'.invoked
                  /\ instances' = instances
                  /\ registry' = registry
             ELSE IF ~instances[registry[last'.key]].is_initialized
             THEN /\ last'.outcome = "raised"
                  /\ last'.value =
                        Exception("ValueError", "Directory not fully initialized", None)
                  /\ ~last'.executor /\ ~last'.invoked
                  /\ registry' = registry
                  /\ instances'[registry[last'.key]].cache
                        = instances[registry[last'.key]].cache
                  /\ instances'[registry[last'.key]].answered
                        = instances[registry[last'.key]].answered
                  /\ ~instances'[registry[last'.key]].is_initialized
             ELSE /\ last'.executor
                  /\ last'.inst = registry[last'.key]
                  /\ registry' = registry ]_vars

\* a query was refused on a registered instance that has never been ingested
C11_Witness ==
    /\ last.op = "query_directory"
    /\ last.key \in DOMAIN registry
    /\ ~instances[registry[last.key]].is_initialized
    /\ last.outcome = "raised"
    /\ last.value.msg = "Directory not fully initialized"

\* C12: query_with_multimodal resolution. A query_with_multimodal call on a path
\* with no registered instance raises "Directory not processed", and on an
\* instance that has never completed an ingestion it raises "Directory not fully
\* initialized" without reaching the Query Executor.
C12_MultimodalResolution ==
    last.op = "query_with_multimodal"
       => IF last.key \notin DOMAIN registry
          THEN /\ last.outcome = "raised"
               /\ last.value = Exception("ValueError", "Directory not processed", None)
          ELSE ~instances[registry[last.key]].is_initialized
                  => /\ last.outcome = "raised"
                     /\ last.value =
                           Exception("ValueError", "Directory not fully initialized", None)
                     /\ ~last.executor /\ ~last.invoked

\* C13: Staleness eviction. cleanup_stale_instances(ttl) removes from the map
\* every instance whose last access is more than ttl ago and that is not
\* processing, and nothing else: every other entry stays, with its instance
\* untouched, and no entry is added. An instance that is processing stays
\* whatever its age.
C13_StalenessEviction ==
    [][ last'.op = "cleanup_stale_instances"
          => /\ DOMAIN registry' \subseteq DOMAIN registry
             /\ \A key \in DOMAIN registry :
                   IF /\ now - instances[registry[key]].last_accessed > last'.ttl
                      /\ ~instances[registry[key]].is_processing
                   THEN key \notin DOMAIN registry'
                   ELSE /\ key \in DOMAIN registry'
                        /\ registry'[key] = registry[key]
                        /\ instances'[registry[key]] = instances[registry[key]] ]_vars

\* an eviction removed an idle instance and kept a processing instance that is
\* older than the ttl
C13_Witness ==
    /\ last.op = "cleanup_stale_instances"
    /\ last.removed # {}
    /\ \E key \in DOMAIN registry :
          /\ instances[registry[key]].is_processing
          /\ now - instances[registry[key]].last_accessed > last.ttl

\* C14: Idempotent resolution. The keys of the map are canonical paths of the
\* two directories, however the callers spelled them; every key maps to a live
\* instance of that path and no instance is registered under two keys; a
\* process_directory call ends on the instance registered for its canonical
\* path; and while a key stays in the map its instance is never replaced, so a
\* later call that resolves to the key creates nothing.
C14_IdempotentResolution ==
    /\ [](/\ DOMAIN registry \subseteq {<<"a", "b">>, <<"c">>}
          /\ \A key \in DOMAIN registry :
                /\ instances[registry[key]] # NoInstance
                /\ instances[registry[key]].directory_path = key
          /\ \A k1, k2 \in DOMAIN registry : registry[k1] = registry[k2] => k1 = k2
          /\ (last.op = "process_directory" /\ last.key \in DOMAIN registry)
                => registry[last.key] = last.inst)
    /\ [][ \A key \in DOMAIN registry \cap DOMAIN registry' :
              /\ registry'[key] = registry[key]
              /\ instances'[registry[key]].created_at
                    = instances[registry[key]].created_at
              /\ instances'[registry[key]].working_dir
                    = instances[registry[key]].working_dir ]_vars

\* a call resolved to an instance created earlier: it was touched, not created
C14_Witness ==
    /\ last.op = "process_directory"
    /\ last.key \in DOMAIN registry
    /\ registry[last.key] = last.inst
    /\ instances[last.inst].last_accessed > instances[last.inst].created_at
    /\ Cardinality(DOMAIN registry) = 2

\* C15: when an accepted process_directory call has ended, by returning a report
\* or by raising, its instance is initialized and no longer processing.
C15_InitializedOnCompletion ==
    (/\ last.op = "process_directory"
     /\ last.inst # 0
     /\ ~EndedWith("ValueError", "Directory is already being processed"))
       => /\ instances[last.inst].is_initialized
          /\ ~instances[last.inst].is_processing

\* C16: is_initialized is monotonic. No step takes an instance that is
\* initialized to the same instance not initialized.
C16_InitializedMonotonic ==
    [][ \A id \in InstIds :
           (/\ instances[id] # NoInstance
            /\ instances[id].is_initialized
            /\ instances'[id] # NoInstance)
              => instances'[id].is_initialized ]_vars

\* a process_directory call failed on an instance that an earlier call had
\* initialized, and the instance is still initialized
C16_Witness ==
    /\ last.op = "process_directory"
    /\ last.outcome = "raised"
    /\ ~EndedWith("ValueError", "Directory is already being processed")
    /\ instances[last.inst].is_initialized

\* C17: a process_single_document call made directly, whose file failed at the
\* backend, raises: it does not return a result.
C17_DirectCallRaises ==
    (last.op = "process_single_document" /\ last.backend = "failed")
       => last.outcome = "raised"

\* C18: a process_directory call on a path that is not an existing directory
\* raises, and leaves the instance of that path not initialized.
C18_MissingDirectory ==
    (/\ last.op = "process_directory"
     /\ last.inst # 0
     /\ last.key \notin Directories)
       => /\ last.outcome = "raised"
          /\ ~instances[last.inst].is_initialized

\* C19: the process_directory tool, called with directory_path and api_key alone
\* on an existing directory whose instance is idle, answers with success true,
\* status "completed" and total_files equal to the number of eligible files of
\* the directory.
C19_ProcessDirectoryTool ==
    (/\ last.op = "process_directory"
     /\ last.inst # 0
     /\ last.max_workers = <<RAG_MAX_WORKERS>>
     /\ ~EndedWith("ValueError", "Directory is already being processed"))
       => /\ ToolResponse(last).success
          /\ ToolResponse(last).status = "completed"
          /\ ToolResponse(last).total_files
                = Cardinality({f \in FileSystem : f.dir = last.key})

\* C20: the process_single_document tool, called with file_path and api_key
\* alone on an existing file within the size limit, answers with success true
\* and status "success" for that file.
C20_ProcessSingleDocumentTool ==
    (/\ last.op = "process_single_document"
     /\ last.inst # 0
     /\ last.backend # "failed"
     /\ last.file_path \in {"/a/b/a.txt", "/c/x.txt"})
       => /\ ToolResponse(last).success
          /\ ToolResponse(last).status = "success"
          /\ ToolResponse(last).file_path = last.file_path

\* C21: a process_directory call that made its instance with a working
\* directory of the caller ends by returning a report; every instance a call
\* leaves has the caller's working directory or the storage root joined with
\* the name of the directory.
C21_WorkingStorageSelection ==
    last.op = "process_directory"
       => /\ instances[last.inst].working_dir
                \in {<<"w">>, Append(RAG_WORKING_DIR, PathName(last.key))}
          /\ (instances[last.inst].working_dir = <<"w">> => last.outcome = "returned")

\* the operations behind the six registered tools
ToolOps ==
    {"process_directory", "process_single_document", "query_directory",
     "query_with_multimodal", "list_processed_directories", "get_rag_info"}

\* C22: whatever a tool did, its caller receives a dict with a boolean success;
\* when the operation raised, the dict is exactly success false, error and
\* error_type.
C22_StructuredResult ==
    last.op \in ToolOps
       => /\ "success" \in DOMAIN ToolResponse(last)
          /\ ToolResponse(last).success \in BOOLEAN
          /\ last.outcome = "raised"
                => /\ DOMAIN ToolResponse(last) = {"success", "error", "error_type"}
                   /\ ~ToolResponse(last).success

C22_Witness ==
    /\ last.op = "process_directory"
    /\ last.outcome = "raised"
    /\ last.value.exc = "TypeError"
    /\ ToolResponse(last) = [success |-> FALSE, error |-> last.value.msg,
                             error_type |-> "TypeError"]

\* C23: at the boundary a process_directory rejected for an ingestion in flight
\* carries AlreadyProcessingError, a query on a path without an instance carries
\* NotFoundError, and a query on an instance that is not initialized carries
\* NotInitializedError.
C23_ErrorTypes ==
    /\ EndedWith("ValueError", "Directory is already being processed")
          => ToolResponse(last).error_type = "AlreadyProcessingError"
    /\ (/\ last.op \in {"query_directory", "query_with_multimodal"}
        /\ last.outcome = "raised"
        /\ last.value = NotProcessed)
          => ToolResponse(last).error_type = "NotFoundError"
    /\ (/\ last.op = "query_directory"
        /\ last.outcome = "raised"
        /\ last.value = NotInitialized)
          => ToolResponse(last).error_type = "NotInitializedError"

\* C24: a process_single_document call is never rejected for an ingestion in
\* flight, and it leaves is_processing and is_initialized of the instance as
\* they were; an instance it creates is neither processing nor initialized.
C24_SingleDocumentTakesNoFlag ==
    [][last'.op = "process_single_document"
          => /\ ~(/\ last'.outcome = "raised"
                  /\ last'.value.msg = "Directory is already being processed")
             /\ last'.key \in DOMAIN registry
                   => /\ instances'[last'.inst].is_processing
                            = instances[last'.inst].is_processing
                      /\ instances'[last'.inst].is_initialized
                            = instances[last'.inst].is_initialized
             /\ last'.key \notin DOMAIN registry
                   => /\ ~instances'[last'.inst].is_processing
                      /\ ~instances'[last'.inst].is_initialized]_vars

C24_Witness ==
    /\ last.op = "process_single_document"
    /\ last.backend = "ok"
    /\ last.outcome = "returned"
    /\ instances[last.inst].is_processing
    /\ RunningOn(last.inst) # {}

\* the file exists and is within the maximum size
Eligible(file_path) ==
    /\ Exists(file_path)
    /\ FileAt(file_path).st_size <= MAX_FILE_SIZE_MB * BytesPerMB

\* C25: a file that does not exist or is larger than the maximum size never
\* reaches the backend: its unit of a batch is never at the backend and ends in
\* an exception, and a direct call for it raises without reaching the backend.
C25_ChecksPrecedeBackend ==
    /\ \A c \in CallIds : \A i \in DOMAIN calls[c].units :
          ~Eligible(calls[c].files[i])
             => /\ calls[c].units[i].st # "backend"
                /\ calls[c].units[i].st = "done" => IsException(calls[c].units[i].result)
    /\ (last.op = "process_single_document" /\ ~Eligible(last.file_path))
          => /\ last.backend = "not reached"
             /\ last.outcome = "raised"

C25_Witness ==
    /\ last.op = "process_single_document"
    /\ last.file_path = "/c/missing.txt"
    /\ last.backend = "not reached"
    /\ \E i \in DOMAIN calls[1].units :
          /\ ~Eligible(calls[1].files[i])
          /\ calls[1].units[i].st = "done"

\* C26: a multimodal query that reaches the Query Executor leaves the cache as
\* it was, is never answered from the cache, and runs the backend unless it is
\* rejected by validation.
C26_MultimodalBypassesCache ==
    [][(last'.op = "query_with_multimodal" /\ last'.executor)
          => /\ instances'[last'.inst].cache = instances[last'.inst].cache
             /\ ~last'.hit
             /\ \/ last'.invoked
                \/ last'.outcome = "raised" /\ last'.value.exc = "ValueError"]_vars

C26_Witness ==
    /\ last.op = "query_with_multimodal"
    /\ last.outcome = "returned"
    /\ last.invoked
    /\ QueryCacheKey(last.mode, last.query) \in DOMAIN instances[last.inst].cache
    /\ instances[last.inst].cache[QueryCacheKey(last.mode, last.query)].response
          # last.value.response

\* an item the validation has to reject
MalformedItem(item) ==
    \/ item.py # "dict"
    \/ "type" \notin DOMAIN item.fields
    \/ item.fields.type = "table" /\ "table_data" \notin DOMAIN item.fields
    \/ item.fields.type = "equation" /\ "latex" \notin DOMAIN item.fields
    \/ /\ item.fields.type = "image"
       /\ "image_url" \notin DOMAIN item.fields
       /\ "image_path" \notin DOMAIN item.fields

Malformed(content) ==
    \/ content.py # "list"
    \/ \E i \in DOMAIN content.items : MalformedItem(content.items[i])

C28_CachePersists ==
    [][/\ \A id \in InstIds :
             (instances[id] # NoInstance /\ instances'[id] # NoInstance)
                => /\ \A k \in DOMAIN instances[id].cache :
                         /\ k \in DOMAIN instances'[id].cache
                         /\ instances'[id].cache[k] = instances[id].cache[k]
                   /\ last'.op \in {"process_directory", "process_single_document"}
                         => instances'[id].cache = instances[id].cache
       /\ (/\ last'.op = "query_directory"
           /\ last'.executor
           /\ QueryCacheKey(last'.mode, last'.query)
                 \in DOMAIN instances[last'.inst].cache)
             => /\ last'.hit
                /\ last'.value
                      = instances[last'.inst].cache[QueryCacheKey(last'.mode, last'.query)]]_vars

C28_Witness ==
    /\ last.op = "process_directory"
    /\ last.outcome = "returned"
    /\ instances[last.inst].cache # NoCache

\* C29: the files of a batch are pairwise distinct, and the report's total is
\* the number of distinct eligible files.
C29_NoDoubleCount ==
    (last.op = "process_directory" /\ last.outcome = "returned")
       => /\ \A i, j \in DOMAIN last.files : i # j => last.files[i] # last.files[j]
          /\ last.value.total_files = Cardinality(Range(last.files))

\* C30: cleanup leaves the registry empty; while it is empty the list of
\* processed directories is empty, and query_directory on a path that has no
\* instance in the registry raises "Directory not processed".
C30_ShutdownEmptiesMap ==
    [][/\ last'.op = "cleanup" => registry' = <<>>
       /\ (registry = <<>> /\ last'.op = "list_processed_directories")
             => last'.value = {}
       /\ (last'.op = "query_directory" /\ last'.key \notin DOMAIN registry)
             => /\ last'.outcome = "raised"
                /\ last'.value = NotProcessed]_vars

C30_Witness ==
    /\ last.op = "query_directory"
    /\ last.outcome = "raised"
    /\ last.value = NotProcessed
    /\ \E c \in CallIds :
          /\ calls[c].pc = "gather"
          /\ instances[calls[c].inst].is_processing
          /\ instances[calls[c].inst].directory_path = last.key

\* C31: list_processed_directories and get_rag_info leave the registry and every
\* instance as they were, last_accessed included; the list holds the info of
\* each registered instance, one per instance; get_rag_info gives the info of
\* the registered instance, and its tool answers NotFoundError for a path that
\* has none.
C31_ReadOnlySnapshots ==
    [][/\ last'.op \in {"list_processed_directories", "get_rag_info"}
             => /\ instances' = instances
                /\ registry' = registry
       /\ (last'.op = "list_processed_directories" /\ last'.outcome = "returned")
             => /\ last'.value = {GetInfo(instances[registry[key]]) : key \in DOMAIN registry}
                /\ Cardinality(last'.value) = Cardinality(DOMAIN registry)
       /\ (last'.op = "get_rag_info" /\ last'.outcome = "returned")
             => IF last'.key \in DOMAIN registry
                THEN /\ last'.value = <<GetInfo(instances[registry[last'.key]])>>
                     /\ ToolResponse(last').success
                ELSE /\ last'.value = None
                     /\ ToolResponse(last').error_type = "NotFoundError"]_vars

C31_Witness ==
    /\ last.op = "get_rag_info"
    /\ last.outcome = "returned"
    /\ last.value # None
    /\ last.value[1].last_accessed < now
    /\ instances[registry[last.key]].last_accessed < now

\* the concurrency limit of call c: max_workers, or the default
LimitOf(c) == OrDefault(calls[c].max_workers, RAG_MAX_WORKERS)

\* C32: every call in gather has at most its own limit of units at the backend,
\* its permits are its limit less its own units at the backend, and a waiting
\* unit of a call with a permit left can start whatever the other calls do; a
\* call is rejected as already processing only when a call runs on the same
\* instance.
C32_IndependentGates ==
    /\ \A c \in CallIds :
          calls[c].pc = "gather"
             => /\ InFlight(c) <= LimitOf(c)
                /\ calls[c].sem = LimitOf(c) - InFlight(c)
                /\ \A i \in DOMAIN calls[c].units :
                      (calls[c].units[i] = Waiting /\ InFlight(c) < LimitOf(c))
                         => ENABLED UnitStart(c, i)
    /\ EndedWith("ValueError", "Directory is already being processed")
          => RunningOn(last.inst) # {}

C32_Witness ==
    \E c, d \in CallIds :
       /\ calls[c].pc = "gather"
       /\ calls[d].pc = "gather"
       /\ instances[calls[c].inst].directory_path = Dir_ab
       /\ instances[calls[d].inst].directory_path = Dir_c
       /\ \E i \in DOMAIN calls[c].units : calls[c].units[i] = Waiting
       /\ InFlight(c) + InFlight(d) = LimitOf(c) + LimitOf(d)

\* the events of a registry call that touch the filesystem or await
IOEvents == {"mkdir", "await"}

\* the lock is held at event i: an acquire before it has no release after it
\* and before i
HeldAt(events, i) ==
    \E a \in 1 .. (i - 1) :
       /\ events[a] = "acquire"
       /\ \A b \in (a + 1) .. (i - 1) : events[b] # "release"

\* C33: in a get_or_create_instance call no filesystem access and no await
\* happens while the lock is held, and the lock is released when the call ends.
C33_LockNotHeldAcrossIO ==
    last.op = "get_or_create_instance"
       => /\ \A i \in DOMAIN last.events :
                last.events[i] \in IOEvents => ~HeldAt(last.events, i)
          /\ ~HeldAt(last.events, Len(last.events) + 1)

\* the number of entries of the sequence that equal x
Count(seq, x) == Cardinality({i \in DOMAIN seq : seq[i] = x})

\* C34: retry_async calls func at most max_retries + 1 times. With
\* max_retries >= 0: every call of func but the last raised a listed exception;
\* a return gives the result of the last call; a raise gives the exception of
\* the last call, which is not listed or is the one of call max_retries + 1;
\* calls and sleeps alternate, beginning and ending with a call.
C34_RetryBound ==
    /\ \A c \in CallIds :
          calls[c].pc \in {"attempt", "sleep"}
             => Count(calls[c].events, "call") <= calls[c].max_retries + 1
    /\ last.op = "retry_async"
          => /\ Len(last.outcomes) <= last.max_retries + 1
             /\ Count(last.events, "call") = Len(last.outcomes)
             /\ last.max_retries >= 0
                   => /\ Len(last.outcomes) >= 1
                      /\ \A i \in 1 .. (Len(last.outcomes) - 1) :
                            /\ IsException(last.outcomes[i])
                            /\ Caught(last.outcomes[i].exc, last.exceptions)
                      /\ last.value = last.outcomes[Len(last.outcomes)]
                      /\ last.outcome = "returned" <=> ~IsException(last.value)
                      /\ (last.outcome = "raised" /\ Caught(last.value.exc, last.exceptions))
                            => Len(last.outcomes) = last.max_retries + 1
                      /\ Len(last.events) = 2 * Len(last.outcomes) - 1
                      /\ \A i \in DOMAIN last.events :
                            last.events[i] = IF i % 2 = 1 THEN "call" ELSE "sleep"

C34_Witness ==
    /\ last.op = "retry_async"
    /\ last.outcome = "raised"
    /\ last.max_retries = 2
    /\ Len(last.outcomes) = 3
    /\ Count(last.events, "sleep") = 2
    /\ Caught(last.value.exc, last.exceptions)

\* C35: no two process_directory calls are in progress at once on instances of
\* the same canonical directory path.
C35_SingleFlightPerDirectory ==
    \A c, d \in CallIds :
       (/\ c # d
        /\ calls[c].pc = "gather"
        /\ calls[d].pc = "gather")
          => instances[calls[c].inst].directory_path
                # instances[calls[d].inst].directory_path

\* C36: a process_directory call rejected as already processing leaves the
\* instance as it was but for last_accessed, which becomes the time of the
\* call: is_processing stays set, is_initialized and the cache are unchanged;
\* the registry and the calls in progress with their units are unchanged, and
\* the rejected call has no file and no unit.
C36_RejectionChangesNothing ==
    [][(/\ last'.op = "process_directory"
        /\ last'.outcome = "raised"
        /\ last'.value.msg = "Directory is already being processed")
          => /\ instances[last'.inst] # NoInstance
             /\ instances[last'.inst].is_processing
             /\ instances' = [instances EXCEPT ![last'.inst].last_accessed = now]
             /\ instances'[last'.inst].is_processing
             /\ registry' = registry
             /\ calls' = calls
             /\ last'.files = <<>>
             /\ last'.results = <<>>]_vars

C36_Witness ==
    /\ EndedWith("ValueError", "Directory is already being processed")
    /\ instances[last.inst].is_processing
    /\ ~instances[last.inst].is_initialized
    /\ instances[last.inst].last_accessed > instances[last.inst].created_at
    /\ \E c \in RunningOn(last.inst) :
          \E i \in DOMAIN calls[c].units : calls[c].units[i] = InBackend

\* C37: every cache entry of every instance is the payload the backend produced
\* when the entry was stored, and a query answered from the cache returns that
\* payload.
C37_StoredPayloadUnchanged ==
    /\ \A id \in InstIds :
          instances[id] # NoInstance
             => \A k \in DOMAIN instances[id].answered :
                   QueryCacheKey(k[1], k[2]) \in DOMAIN instances[id].cache
                      => instances[id].cache[QueryCacheKey(k[1], k[2])]
                            = instances[id].answered[k][1]
    /\ (last.op = "query_directory" /\ last.hit)
          => last.value = instances[last.inst].answered[<<last.mode, last.query>>][1]

\* C38: two instances registered at once under different keys, neither made
\* with a working directory of the caller, have different working directories.
C38_WorkingStorageNotShared ==
    \A k1, k2 \in DOMAIN registry :
       (/\ k1 # k2
        /\ instances[registry[k1]].working_dir # <<"w">>
        /\ instances[registry[k2]].working_dir # <<"w">>)
          => instances[registry[k1]].working_dir # instances[registry[k2]].working_dir

\* C39: a cleanup_stale_instances call made at the moment a process_directory
\* call has returned its report, no time having passed since, does not remove
\* the instance of that call, whatever the ttl.
C39_IngestionRefreshesLastAccessed ==
    [][(/\ last.op = "process_directory"
        /\ last.outcome = "returned"
        /\ last'.op = "cleanup_stale_instances")
          => last.key \notin last'.removed]_vars

\* C40: a batch that awaits gather ends. Every waiting unit of it comes to run,
\* the permits of the call are its limit less the units at the backend, so all
\* are free once every unit is done, units that failed included, and the call
\* returns and leaves its instance not processing.
C40_BatchTermination ==
    /\ [](\A c \in CallIds :
             calls[c].pc = "gather"
                => /\ calls[c].sem = LimitOf(c) - InFlight(c)
                   /\ GatherComplete(calls[c].units) => calls[c].sem = LimitOf(c))
    /\ \A c \in CallIds, i \in UnitIds :
          (/\ calls[c].pc = "gather"
           /\ i \in DOMAIN calls[c].units
           /\ calls[c].units[i] = Waiting)
             ~> (/\ calls[c].pc = "gather"
                 /\ i \in DOMAIN calls[c].units
                 /\ calls[c].units[i] # Waiting)
    /\ \A c \in CallIds :
          (calls[c].pc = "gather")
             ~> (/\ calls[c].pc = "idle"
                 /\ last.op = "process_directory"
                 /\ ~instances[last.inst].is_processing)

C40_Witness ==
    /\ last.op = "process_directory"
    /\ last.outcome = "returned"
    /\ last.max_workers = <<1>>
    /\ Len(last.files) = 3
    /\ Cardinality(FailedAtBackend) = 1
    /\ Cardinality(Succeeded) = 1
    /\ ~instances[last.inst].is_processing
====
